---- MODULE Spec2Model ----
(***************************************************************************)
(* MarketHMM (src/src/hmm_model.py): an HMM wrapper that tries hmmlearn    *)
(* and falls back to a clustering-based pseudo-HMM.  The model keeps the   *)
(* fields of one MarketHMM instance and has one action per method.         *)
(*                                                                         *)
(* Numbers are exact rationals <<num, den>> (den > 0, lowest terms); the   *)
(* float NaN is <<0, 0>>.  States are 0 .. n_states-1 as in the code; a    *)
(* vector over states is a function on that range, a label sequence and a  *)
(* feature matrix are sequences over the rows 1 .. n.                      *)
(***************************************************************************)
EXTENDS Integers, Sequences, FiniteSets, TLC

\* ---------------------------------------------------------------- bounds
\* largest n_states a model is constructed with
MaxStates == 2
\* largest number of rows of a feature matrix
MaxRows == 3

\* ------------------------------------------------------ program constants
\* the columns of the pipeline's feature matrix (return, sentiment)
FeatureDim == 2

\* ------------------------------------------------------------ arithmetic
NaN == <<0, 0>>

IsNaN(a) == a[2] = 0

Abs(i) == IF i < 0 THEN -i ELSE i

RECURSIVE Gcd(_, _)
Gcd(a, b) == IF b = 0 THEN a ELSE Gcd(b, a % b)

Norm(num, den) ==
    LET g == Gcd(Abs(num), den)
    IN  <<num \div g, den \div g>>

Whole(i) == <<i, 1>>

RatAdd(a, b) ==
    IF IsNaN(a) \/ IsNaN(b) THEN NaN
    ELSE Norm(a[1] * b[2] + b[1] * a[2], a[2] * b[2])

RatSub(a, b) ==
    IF IsNaN(a) \/ IsNaN(b) THEN NaN
    ELSE Norm(a[1] * b[2] - b[1] * a[2], a[2] * b[2])

RatMul(a, b) ==
    IF IsNaN(a) \/ IsNaN(b) THEN NaN
    ELSE Norm(a[1] * b[1], a[2] * b[2])

\* a / b for integers a, b: numpy gives nan for 0/0 (mean of an empty slice)
IntDiv(a, b) == IF b = 0 THEN NaN ELSE Norm(a, b)

RatLess(a, b) == a[1] * b[2] < b[1] * a[2]

\* ------------------------------------------------------------------ state
VARIABLES
    n_states,           \* self.n_states
    hmmlearnInstalled,  \* whether "from hmmlearn.hmm import GaussianHMM" succeeds
    model,              \* self.model: "None", "unfitted" or "fitted" GaussianHMM
    fallback,           \* self.fallback
    transition_matrix_, \* self.transition_matrix_, None or a k x k matrix
    means_,             \* self.means_, None or a k x d matrix
    last_labels,        \* self._last_labels: <<>> when the attribute is absent, <<labels>> when set
    ret,                \* the last call: its name, its arguments and what it returned or raised
    lastFit,            \* history: the latest fit call, its argument and how it ended
    src                 \* history: which fit call wrote each field ("none", "cur" = the latest, "old")

vars == <<n_states, hmmlearnInstalled, model, fallback, transition_matrix_,
          means_, last_labels, ret, lastFit, src>>

None == <<>>

States == 0 .. (n_states - 1)

Cols == 0 .. (FeatureDim - 1)

Fields == {"model", "fallback", "transition_matrix_", "means_", "last_labels"}

Init ==
    /\ n_states \in 1 .. MaxStates
    /\ hmmlearnInstalled \in BOOLEAN
    /\ model = "None"
    /\ fallback = FALSE
    /\ transition_matrix_ = None
    /\ means_ = None
    /\ last_labels = <<>>
    /\ ret = [op |-> "__init__"]
    /\ lastFit = [outcome |-> "never", tier |-> 0, raised |-> {}, rows |-> 0, flat |-> FALSE]
    /\ src = [f \in Fields |-> "none"]

\* ------------------------------------------------- inputs and libraries
\* The values a row of a feature matrix is drawn from: the zero row and the
\* row (1, 2, .., d), so that the columns of a matrix differ.
RowVals == { [c \in Cols |-> 0], [c \in Cols |-> c + 1] }

\* The feature matrices of n rows (row order is time order).
Matrices(n) == [1 .. n -> RowVals]

\* The label sequences a clustering or decoding of n rows may return.
Labels(n) == [1 .. n -> States]

\* means_ as a fitted GaussianMixture or GaussianHMM may report it: a k x d
\* matrix of finite numbers (two representatives, with distinct columns).
MeansUp == [s \in States |-> [c \in Cols |-> Whole(s + c)]]

MeansDown == [s \in States |-> [c \in Cols |-> Whole(c - 2 * s - 1)]]

LibMeans == {MeansUp, MeansDown}

\* transmat_ as a fitted GaussianHMM may report it: a row-stochastic k x k
\* matrix (three representatives: stay, uniform, cycle).
Stay == [a \in States |-> [b \in States |-> IF a = b THEN Whole(1) ELSE Whole(0)]]

Even == [a \in States |-> [b \in States |-> Norm(1, n_states)]]

Cycle ==
    [a \in States |-> [b \in States |->
        IF b = (a + 1) % n_states THEN Whole(1) ELSE Whole(0)]]

\* np.zeros((self.n_states, X.shape[1]))
ZeroMeans == [s \in States |-> [c \in Cols |-> Whole(0)]]

\* What a fitted GaussianHMM reports: transmat_ and means_ (means |-> None
\* when reading model.means_ raises, the case line 31 guards).
LibFits ==
    { [transmat |-> Stay, means |-> MeansUp],
      [transmat |-> Even, means |-> MeansDown],
      [transmat |-> Cycle, means |-> <<>>] }

\* KMeans.fit_predict labels a row by its nearest centre, so equal rows get
\* equal labels: the labels are a function of the row.
CentroidLabels(X) ==
    { [t \in 1 .. Len(X) |-> g[X[t]]] : g \in [RowVals -> States] }

\* GaussianHMM.fit, GaussianMixture.fit_predict and KMeans.fit_predict reject a
\* matrix that is not 2-D, has too few rows, or has fewer rows than components.
LibAccepts(minRows, n, flat) == ~flat /\ n >= minRows /\ n >= n_states

\* ------------------------------------------------------------------- fit
RECURSIVE SumOver(_, _)
SumOver(f, S) ==
    IF S = {} THEN 0
    ELSE LET x == CHOOSE y \in S : TRUE
         IN  f[x] + SumOver(f, S \ {x})

\* np.vstack([X[labels == k].mean(axis=0) for k in range(self.n_states)])
CentroidMeans(X, labels) ==
    [s \in States |-> [c \in Cols |->
        LET rows == {t \in 1 .. Len(labels) : labels[t] = s}
        IN  IntDiv(SumOver([t \in rows |-> X[t][c]], rows), Cardinality(rows))]]

\* TransitionCounts with the pair counted at [b, a].
TransitionCountsTransposed(labels) ==
    [a \in States |-> [b \in States |->
        Cardinality({t \in 1 .. (Len(labels) - 1) :
                        labels[t] = b /\ labels[t + 1] = a})]]

\* trans[a, b] += 1 for a, b in zip(labels[:-1], labels[1:])
TransitionCounts(labels) ==
    [a \in States |-> [b \in States |->
        Cardinality({t \in 1 .. (Len(labels) - 1) :
                        labels[t] = a /\ labels[t + 1] = b})]]

\* row_sums = trans.sum(axis=1); row_sums[row_sums == 0] = 1
RowSums(counts) ==
    [a \in States |->
        LET total == SumOver(counts[a], States)
        IN  IF total = 0 THEN 1 ELSE total]

\* trans = trans / row_sums
EmpiricalTransitions(labels) ==
    LET counts == TransitionCounts(labels)
        row_sums == RowSums(counts)
    IN  [a \in States |-> [b \in States |-> IntDiv(counts[a][b], row_sums[a])]]

\* Caught with the mixture tier's failure surfacing to the caller.
CaughtExceptMixture(t) == t \in {1, 3}

\* The "except Exception" clause that guards tier t (1 primary, 2 mixture,
\* 3 centroid); the last tier, 4, is not guarded.
Caught(t) == t \in {1, 2, 3}

Written(written) ==
    [f \in Fields |-> IF f \in written THEN "cur"
                      ELSE IF src[f] = "none" THEN "none" ELSE "old"]

\* fit raises to the caller out of tier t; mdl is self.model by then.
FitRaises(n, flat, raised, mdl, written) ==
    /\ model' = mdl
    /\ UNCHANGED <<fallback, transition_matrix_, means_, last_labels>>
    /\ src' = Written(written)
    /\ lastFit' = [outcome |-> "raise", tier |-> 0, raised |-> raised,
                   rows |-> n, flat |-> flat]

\* FitFallbackDone without line 68: the flag is left as it was.
FitFallbackDoneFlagKept(n, flat, raised, mdl, written, tier, labels, means) ==
    /\ model' = mdl
    /\ means_' = means
    /\ transition_matrix_' = EmpiricalTransitions(labels)
    /\ UNCHANGED fallback
    /\ last_labels' = <<labels>>
    /\ src' = Written(written \cup {"means_", "transition_matrix_", "last_labels"})
    /\ lastFit' = [outcome |-> "ok", tier |-> tier, raised |-> raised,
                   rows |-> n, flat |-> flat]

\* Lines 59-71: the transition matrix from the labels, the flag, the cache.
FitFallbackDone(n, flat, raised, mdl, written, tier, labels, means) ==
    /\ model' = mdl
    /\ means_' = means
    /\ transition_matrix_' = EmpiricalTransitions(labels)
    /\ fallback' = TRUE
    /\ last_labels' = <<labels>>
    /\ src' = Written(written \cup {"means_", "transition_matrix_", "fallback", "last_labels"})
    /\ lastFit' = [outcome |-> "ok", tier |-> tier, raised |-> raised,
                   rows |-> n, flat |-> flat]

\* Lines 53-57: random labels; X.shape[1] raises on a matrix that is not 2-D.
FitRandom(n, flat, raised, mdl, written) ==
    IF flat
    THEN FitRaises(n, flat, raised \cup {4}, mdl, written)
    ELSE \E labels \in Labels(n) :
            FitFallbackDone(n, flat, raised, mdl, written, 4, labels, ZeroMeans)

\* Lines 45-52: KMeans labels, the means are the per-label row means.
FitCentroid(n, flat, raised, mdl, written) ==
    \/ /\ LibAccepts(1, n, flat)
       /\ \E X \in Matrices(n) : \E labels \in CentroidLabels(X) :
            FitFallbackDone(n, flat, raised, mdl, written, 3, labels,
                            CentroidMeans(X, labels))
    \/ IF Caught(3)
       THEN FitRandom(n, flat, raised \cup {3}, mdl, written)
       ELSE FitRaises(n, flat, raised \cup {3}, mdl, written)

\* Lines 38-44: GaussianMixture labels and means.
FitMixture(n, flat, raised, mdl, written) ==
    \/ /\ LibAccepts(2, n, flat)
       /\ \E labels \in Labels(n), means \in LibMeans :
            FitFallbackDone(n, flat, raised, mdl, written, 2, labels, means)
    \/ IF Caught(2)
       THEN FitCentroid(n, flat, raised \cup {2}, mdl, written)
       ELSE FitRaises(n, flat, raised \cup {2}, mdl, written)

\* Lines 21-35: the primary tier.  The import raises when hmmlearn is not
\* installed; otherwise self.model is replaced before GaussianHMM.fit runs.
FitPrimary(n, flat) ==
    \/ /\ hmmlearnInstalled
       /\ LibAccepts(1, n, flat)
       /\ \E fitted \in LibFits :
            /\ model' = "fitted"
            /\ fallback' = FALSE
            /\ transition_matrix_' = fitted.transmat
            /\ means_' = IF fitted.means = <<>> THEN ZeroMeans ELSE fitted.means
            /\ UNCHANGED last_labels
            /\ src' = Written({"model", "fallback", "transition_matrix_", "means_"})
            /\ lastFit' = [outcome |-> "ok", tier |-> 1, raised |-> {},
                           rows |-> n, flat |-> flat]
    \/ LET mdl == IF hmmlearnInstalled THEN "unfitted" ELSE model
           written == IF hmmlearnInstalled THEN {"model"} ELSE {}
       IN  IF Caught(1)
           THEN FitMixture(n, flat, {1}, mdl, written)
           ELSE FitRaises(n, flat, {1}, mdl, written)

\* The arrays fit is called with: a matrix of n rows and FeatureDim columns,
\* or (flat) a 1-D array of n numbers.
Shapes ==
    {<<n, FALSE>> : n \in 0 .. MaxRows} \cup {<<MaxRows, TRUE>>}

\* fit(X)
Fit ==
    /\ \E shape \in Shapes : FitPrimary(shape[1], shape[2])
    /\ ret' = [op |-> "fit"]
    /\ UNCHANGED <<n_states, hmmlearnInstalled>>

\* -------------------------------------------------------------- queries
\* numpy indexing of an axis of length len: a negative index counts from the
\* end, anything outside [-len, len) raises IndexError (here -1).
PyIndex(i, len) ==
    IF 0 <= i /\ i < len THEN i
    ELSE IF -len <= i /\ i < 0 THEN i + len
    ELSE -1

\* CacheHit without the comparison of lengths.
CacheHitAnyLength(n) == last_labels # <<>>

\* Line 81: the cached labels are returned when their length is X.shape[0].
CacheHit(n) == last_labels # <<>> /\ Len(last_labels[1]) = n

\* Squared Euclidean distance of row x to the mean of state s (the norm of
\* line 86 orders the states as its square does).
SqDist(x, s) ==
    LET sq == [c \in Cols |->
                 LET diff == RatSub(Whole(x[c]), means_[s][c])
                 IN  RatMul(diff, diff)]
        F[c \in -1 .. (FeatureDim - 1)] ==
            IF c = -1 THEN Whole(0) ELSE RatAdd(F[c - 1], sq[c])
    IN  F[FeatureDim - 1]

\* d.argmin(axis=1) for one row: the first NaN if there is one, else the first
\* index of the least distance.
NearestMean(x) ==
    LET dist == [s \in States |-> SqDist(x, s)]
        nans == {s \in States : IsNaN(dist[s])}
        least == {s \in States : \A u \in States : ~RatLess(dist[u], dist[s])}
    IN  IF nans # {}
        THEN CHOOSE s \in nans : \A u \in nans : s <= u
        ELSE CHOOSE s \in least : \A u \in least : s <= u

\* PredictReturns that also caches what it returns in self._last_labels.
PredictReturnsCaching(n, via, val, X) ==
    /\ ret' = [op |-> "predict_states", rows |-> n, via |-> via, val |-> val, X |-> X]
    /\ last_labels' = <<val>>
    /\ UNCHANGED <<n_states, hmmlearnInstalled, model, fallback,
                   transition_matrix_, means_, lastFit, src>>

PredictReturns(n, via, val, X) ==
    /\ ret' = [op |-> "predict_states", rows |-> n, via |-> via, val |-> val, X |-> X]
    /\ UNCHANGED <<n_states, hmmlearnInstalled, model, fallback,
                   transition_matrix_, means_, last_labels, lastFit, src>>

\* PredictFallback without the cache: always the nearest mean.
PredictNearestOnly(n) ==
    IF means_ = None
    THEN PredictReturns(n, "zeros", [t \in 1 .. n |-> 0], None)
    ELSE \E X \in Matrices(n) :
            PredictReturns(n, "nearest", [t \in 1 .. n |-> NearestMean(X[t])], X)

\* Lines 80-87: what predict_states does when the primary decoder is not
\* used or raised.
PredictFallback(n) ==
    IF CacheHit(n)
    THEN PredictReturns(n, "cached", last_labels[1], None)
    ELSE IF means_ = None
    THEN PredictReturns(n, "zeros", [t \in 1 .. n |-> 0], None)
    ELSE \E X \in Matrices(n) :
            PredictReturns(n, "nearest", [t \in 1 .. n |-> NearestMean(X[t])], X)

\* predict_states(X) for a matrix of n rows and FeatureDim columns.  The decoder of
\* a fitted GaussianHMM returns one state per row, or raises (it always
\* raises on an unfitted model and on a matrix of no rows).
PredictStates ==
    \E n \in 0 .. MaxRows :
        \/ /\ ~fallback /\ model = "fitted" /\ n >= 1
           /\ \E decoded \in Labels(n) : PredictReturns(n, "decoded", decoded, None)
        \/ PredictFallback(n)

\* The arguments a caller passes for a state and for a column.
StateArgs == -1 .. n_states

ColArgs == -1 .. FeatureDim

\* np.ones(self.n_states) / float(self.n_states)
Uniform == [b \in States |-> Norm(1, n_states)]

\* NextStateProbabilitiesOf without the test for an unfitted model: indexing
\* None raises.
NextStateProbabilitiesUnguarded(s) ==
    IF transition_matrix_ = None \/ PyIndex(s, n_states) = -1
    THEN [outcome |-> "raise", val |-> None]
    ELSE [outcome |-> "ok", val |-> transition_matrix_[PyIndex(s, n_states)]]

\* next_state_probabilities(current_state): [outcome, val]
NextStateProbabilitiesOf(s) ==
    IF transition_matrix_ = None
    THEN [outcome |-> "ok", val |-> Uniform]
    ELSE IF PyIndex(s, n_states) = -1
    THEN [outcome |-> "raise", val |-> None]
    ELSE [outcome |-> "ok", val |-> transition_matrix_[PyIndex(s, n_states)]]

\* np.dot(probs, em)
Dot(probs, em) ==
    LET F[b \in -1 .. (n_states - 1)] ==
            IF b = -1 THEN Whole(0) ELSE RatAdd(F[b - 1], RatMul(probs[b], em[b]))
    IN  F[n_states - 1]

\* ExpectedNextReturnOf with the column fixed to 0, return_index ignored.
ExpectedNextReturnFirstColumn(s, r) ==
    LET probs == NextStateProbabilitiesOf(s)
    IN  IF probs.outcome = "raise"
        THEN [outcome |-> "raise", val |-> None]
        ELSE IF means_ = None
        THEN [outcome |-> "ok", val |-> Whole(0)]
        ELSE [outcome |-> "ok", val |-> Dot(probs.val, [b \in States |-> means_[b][0]])]

\* expected_next_return(current_state, return_index): [outcome, val]
ExpectedNextReturnOf(s, r) ==
    LET probs == NextStateProbabilitiesOf(s)
    IN  IF probs.outcome = "raise"
        THEN [outcome |-> "raise", val |-> None]
        ELSE IF means_ = None
        THEN [outcome |-> "ok", val |-> Whole(0)]
        ELSE IF PyIndex(r, FeatureDim) = -1
        THEN [outcome |-> "raise", val |-> None]
        ELSE LET em == [b \in States |-> means_[b][PyIndex(r, FeatureDim)]]
             IN  [outcome |-> "ok", val |-> Dot(probs.val, em)]

Query(call) ==
    /\ ret' = call
    /\ UNCHANGED <<n_states, hmmlearnInstalled, model, fallback,
                   transition_matrix_, means_, last_labels, lastFit, src>>

NextStateProbabilities ==
    \E s \in StateArgs :
        LET r == NextStateProbabilitiesOf(s)
        IN  Query([op |-> "next_state_probabilities", s |-> s,
                   outcome |-> r.outcome, val |-> r.val])

ExpectedNextReturn ==
    \E s \in StateArgs, c \in ColArgs :
        LET r == ExpectedNextReturnOf(s, c)
        IN  Query([op |-> "expected_next_return", s |-> s, return_index |-> c,
                   outcome |-> r.outcome, val |-> r.val])

\* predict_next_state(current_state): [outcome, val]; np.argmax is the first
\* index of the greatest entry.
PredictNextStateOf(s) ==
    IF transition_matrix_ = None
    THEN [outcome |-> "ok", val |-> s]
    ELSE IF PyIndex(s, n_states) = -1
    THEN [outcome |-> "raise", val |-> -1]
    ELSE LET probs == transition_matrix_[PyIndex(s, n_states)]
             most == {b \in States : \A u \in States : ~RatLess(probs[b], probs[u])}
         IN  [outcome |-> "ok", val |-> CHOOSE b \in most : \A u \in most : b <= u]

\* state_emission_mean(state): [outcome, val]
StateEmissionMeanOf(s) ==
    IF means_ = None
    THEN [outcome |-> "ok", val |-> None]
    ELSE IF PyIndex(s, n_states) = -1
    THEN [outcome |-> "raise", val |-> None]
    ELSE [outcome |-> "ok", val |-> means_[PyIndex(s, n_states)]]

PredictNextState ==
    \E s \in StateArgs :
        LET r == PredictNextStateOf(s)
        IN  Query([op |-> "predict_next_state", s |-> s,
                   outcome |-> r.outcome, val |-> r.val])

StateEmissionMean ==
    \E s \in StateArgs :
        LET r == StateEmissionMeanOf(s)
        IN  Query([op |-> "state_emission_mean", s |-> s,
                   outcome |-> r.outcome, val |-> r.val])

Next ==
    \/ Fit
    \/ PredictStates
    \/ PredictNextState
    \/ StateEmissionMean
    \/ NextStateProbabilities
    \/ ExpectedNextReturn

Spec == Init /\ [][Next]_vars

\* A call overwrites ret and reads nothing of it, and a query changes nothing
\* else, so the behaviours in which the calls are some fits followed by one
\* query reach every state Spec reaches, with far fewer steps to explore.
Idle == ret.op \in {"__init__", "fit"}

NextCalls ==
    \/ Idle /\ Fit
    \/ Idle /\ PredictStates
    \/ Idle /\ PredictNextState
    \/ Idle /\ StateEmissionMean
    \/ Idle /\ NextStateProbabilities
    \/ Idle /\ ExpectedNextReturn

SpecCalls == Init /\ [][NextCalls]_vars

\* ----------------------------------------------------------------- claims
\* The sum of a vector of rationals over the states.
RECURSIVE Total(_, _)
Total(row, S) ==
    IF S = {} THEN Whole(0)
    ELSE LET b == CHOOSE u \in S : TRUE
         IN  RatAdd(row[b], Total(row, S \ {b}))

\* A probability vector over the states: entries in [0, 1] that sum to 1.
Stochastic(row) ==
    /\ DOMAIN row = States
    /\ \A b \in States : row[b][2] > 0 /\ 0 <= row[b][1] /\ row[b][1] <= row[b][2]
    /\ Total(row, States) = Whole(1)

\* The latest fit call returned (it did not raise).
FitReturned == lastFit.outcome = "ok"

\* The states with no outgoing transition in a label sequence.
NoOutgoing(labels) ==
    {i \in States : \A t \in 1 .. (Len(labels) - 1) : labels[t] # i}

\* C1: after fit(X) returns for a matrix of at least 2 rows, the transition
\* matrix is k x k with every row a probability vector, so the vector
\* next_state_probabilities(s) returns sums to 1 for every state s.
C1_RowsStochastic ==
    (FitReturned /\ lastFit.rows >= 2) =>
        /\ DOMAIN transition_matrix_ = States
        /\ \A a \in States : Stochastic(transition_matrix_[a])
        /\ (ret.op = "next_state_probabilities" /\ ret.s \in States) =>
                (ret.outcome = "ok" /\ Total(ret.val, States) = Whole(1))

\* C2: after a fallback fit on a matrix of at least 2 rows, the row of a state
\* with no outgoing transition in the label sequence (it never occurs, or only
\* at the last step) is the uniform distribution 1/k, never all-zero.
C2_EmptyRowUniform ==
    (FitReturned /\ lastFit.tier \in {2, 3, 4} /\ lastFit.rows >= 2) =>
        \A i \in NoOutgoing(last_labels[1]) :
            \A b \in States :
                /\ transition_matrix_[i][b][2] > 0
                /\ transition_matrix_[i][b][1] * n_states = transition_matrix_[i][b][2]

\* C3: predict_states(X) returns one label per row of X, each a state in
\* [0, n_states), whatever the model's state.
C3_PredictShape ==
    ret.op = "predict_states" =>
        /\ Len(ret.val) = ret.rows
        /\ \A t \in 1 .. Len(ret.val) : ret.val[t] \in States

\* C3 witness: a primary-fitted model answered from labels an earlier fallback
\* fit cached, for a matrix of at least two rows.
C3_Witness ==
    /\ ret.op = "predict_states" /\ ret.via = "cached"
    /\ ~fallback /\ model = "fitted" /\ ret.rows >= 2

\* C4: after a fit returns, no fitted field is left over from an earlier fit,
\* and predict_states does not return labels an earlier fit cached (fits of
\* matrices of at least 2 rows).
C4_RefitReplacesAll ==
    (FitReturned /\ lastFit.rows >= 2
        /\ (last_labels = <<>> \/ Len(last_labels[1]) >= 2)) =>
        /\ \A f \in Fields : src[f] # "old"
        /\ (ret.op = "predict_states" /\ ret.via = "cached") => src["last_labels"] = "cur"

\* C5: the tiers run in the order 1 (primary), 2 (mixture), 3 (centroid),
\* 4 (random), each only after every earlier one raised; the first that
\* completes produces the fitted fields; fit raises only when all four raise.
C5_TierOrder ==
    /\ lastFit.outcome = "ok" =>
        /\ lastFit.tier \in 1 .. 4
        /\ lastFit.raised = 1 .. (lastFit.tier - 1)
        /\ fallback = (lastFit.tier # 1)
        /\ lastFit.tier = 1 => model = "fitted"
        /\ lastFit.tier # 1 => Len(last_labels[1]) = lastFit.rows
        /\ lastFit.tier = 4 =>
                \A s \in States : \A c \in Cols : means_[s][c] = Whole(0)
    /\ lastFit.outcome = "raise" => lastFit.raised = 1 .. 4

\* C5 witness: a fit that the random tier completed after the three others raised.
C5_Witness ==
    lastFit.outcome = "ok" /\ lastFit.tier = 4 /\ lastFit.raised = {1, 2, 3} /\ lastFit.rows >= 2

\* C6: on a model on which fit was never called, next_state_probabilities is
\* the uniform vector 1/k and expected_next_return is 0.0, for every argument.
C6_UnfitDefaults ==
    lastFit.outcome = "never" =>
        /\ ret.op = "next_state_probabilities" =>
                /\ ret.outcome = "ok"
                /\ DOMAIN ret.val = States
                /\ \A b \in States : ret.val[b] = <<1, n_states>>
        /\ ret.op = "expected_next_return" =>
                (ret.outcome = "ok" /\ ret.val = <<0, 1>>)

\* C6 witness: expected_next_return on a fresh model, with a state and a
\* column that are both out of range.
C6_Witness ==
    /\ lastFit.outcome = "never" /\ ret.op = "expected_next_return"
    /\ ret.s = n_states /\ ret.return_index = FeatureDim /\ n_states = 2

\* The sum over the states b in S of transition_matrix_[s][b] * means_[b][r].
RECURSIVE Weighted(_, _, _)
Weighted(s, r, S) ==
    IF S = {} THEN Whole(0)
    ELSE LET b == CHOOSE u \in S : \A v \in S : u >= v
         IN  RatAdd(Weighted(s, r, S \ {b}),
                    RatMul(transition_matrix_[s][b], means_[b][r]))

\* C7: on a fitted model, expected_next_return(s, r) is the sum over the
\* states j of transition_matrix_[s][j] * means_[j][r], and
\* next_state_probabilities(s) is transition_matrix_[s] unchanged.
C7_ExpectedReturn ==
    (transition_matrix_ # None /\ means_ # None /\ ret.op # "__init__" /\ ret.op # "fit") =>
        /\ (ret.op = "expected_next_return" /\ ret.s \in States /\ ret.return_index \in Cols) =>
                (ret.outcome = "ok" /\ ret.val = Weighted(ret.s, ret.return_index, States))
        /\ (ret.op = "next_state_probabilities" /\ ret.s \in States) =>
                (ret.outcome = "ok" /\ ret.val = transition_matrix_[ret.s])

\* C7 witness: an expected return of 3/2 in the second column, from a row of
\* two halves.
C7_Witness ==
    /\ ret.op = "expected_next_return" /\ ret.s \in States /\ ret.return_index = 1
    /\ transition_matrix_ # None /\ ret.outcome = "ok" /\ ret.val = <<3, 2>>
    /\ transition_matrix_[ret.s][0] = <<1, 2>>

\* C8: on a model fit by a fallback tier, predict_states on a matrix with the
\* row count of the fit matrix returns the labels that fit cached.
C8_CachedLabels ==
    (ret.op = "predict_states" /\ fallback /\ last_labels # <<>>
        /\ Len(last_labels[1]) = ret.rows) =>
        ret.val = last_labels[1]

\* C8 witness: cached labels of three rows returned that are not what the
\* nearest mean would give (the random tier's means are all zero).
C8_Witness ==
    /\ ret.op = "predict_states" /\ fallback /\ ret.rows = 3
    /\ lastFit.outcome = "ok" /\ lastFit.tier = 4
    /\ ret.val = <<1, 0, 1>>

\* C9: on a fitted model, expected_next_return with a return_index outside
\* [0, d) raises.
C9_ColumnRange ==
    (ret.op = "expected_next_return" /\ FitReturned /\ lastFit.rows >= 2
        /\ ret.s \in States /\ ret.return_index \notin Cols) =>
        ret.outcome = "raise"

\* C10: fit on a matrix of zero rows raises and leaves the model unfitted.
C10_EmptyMatrixRaises ==
    (lastFit.outcome # "never" /\ ~lastFit.flat /\ lastFit.rows = 0) =>
        lastFit.outcome = "raise"

ModelFields == <<n_states, model, fallback, transition_matrix_, means_, last_labels>>

\* C12: only fit changes the model: every step of predict_states,
\* predict_next_state, state_emission_mean, next_state_probabilities and
\* expected_next_return leaves every field of the instance as it was.
C12_QueriesReadOnly ==
    [][ret'.op # "fit" => UNCHANGED ModelFields]_vars

\* C12 witness: the decoder answered predict_states on a fitted model.
C12_Witness ==
    /\ ret.op = "predict_states" /\ ret.via = "decoded" /\ ret.rows >= 2
    /\ FitReturned /\ model = "fitted"

\* C13: after a fallback fit with labels L (in row order), for every state i
\* with an outgoing transition, transition_matrix_[i][j] is the number of t
\* with L[t] = i and L[t+1] = j over the number of t < n with L[t] = i.
C13_EmpiricalRatios ==
    fallback =>
        LET L == last_labels[1]
            pairs(i, j) == Cardinality({t \in 1 .. (Len(L) - 1) : L[t] = i /\ L[t + 1] = j})
            from(i) == Cardinality({t \in 1 .. (Len(L) - 1) : L[t] = i})
        IN  \A i \in States \ NoOutgoing(L) : \A j \in States :
                /\ transition_matrix_[i][j][2] > 0
                /\ transition_matrix_[i][j][1] * from(i) = pairs(i, j) * transition_matrix_[i][j][2]

\* C13 witness: labels 0, 0, 1 give row 0 the two halves.
C13_Witness ==
    /\ fallback /\ last_labels = << <<0, 0, 1>> >>
    /\ transition_matrix_[0][0] = <<1, 2>> /\ transition_matrix_[0][1] = <<1, 2>>

\* C14: on a model fit by a fallback tier, predict_states on a matrix whose row
\* count differs from the fit matrix's labels each row with the state whose
\* mean is at the least Euclidean distance, the lowest index winning ties;
\* with means_ unset it returns zeros.
C14_NearestMean ==
    /\ (ret.op = "predict_states" /\ means_ = None) =>
            \A t \in 1 .. ret.rows : ret.val[t] = 0
    /\ (ret.op = "predict_states" /\ fallback /\ Len(last_labels[1]) # ret.rows) =>
            \A t \in 1 .. ret.rows :
                LET i == ret.val[t]
                    x == ret.X[t]
                IN  /\ i \in States
                    /\ ~IsNaN(SqDist(x, i))
                    /\ \A u \in States :
                        ~IsNaN(SqDist(x, u)) =>
                            /\ ~RatLess(SqDist(x, u), SqDist(x, i))
                            /\ u < i => RatLess(SqDist(x, i), SqDist(x, u))

\* C15: a fit call that raises on a previously fitted model leaves the model
\* object, the flag, the transition matrix, the means and the cached labels
\* as they were.
C15_FailedFitKeepsModel ==
    [][(ret'.op = "fit" /\ lastFit'.outcome = "raise" /\ transition_matrix_ # None) =>
            UNCHANGED <<model, fallback, transition_matrix_, means_, last_labels>>]_vars

====
